---- MODULE Spec2Model ----
(***************************************************************************)
(* talkback-mcp: the shared speech queue (MessageQueue) and the say        *)
(* processes its drain loop starts, the session registry (SessionStorage   *)
(* and the voice cursor of index.ts) and the tools of index.ts.            *)
(*                                                                         *)
(* Seven specifications share the actions:                                 *)
(*   Spec          the queue alone, every call and process event;          *)
(*   SpecLimit     the queue constructed with any limit, long texts;       *)
(*   SpecServer    the six tools on queue and registry, two session ids;   *)
(*   SpecRegistry  the tools that reach the registry, three session ids,   *)
(*                 the sessions file overwritten, the process restarted;   *)
(*   SpecSnapshot  the queue and a client that edits the list of a status; *)
(*   SpecIds       the queue with the ids generateId builds;               *)
(*   SpecWrite     the registry tools on a file that may be read-only.     *)
(*                                                                         *)
(* Execution model.  Node runs one callback at a time.  A tool call        *)
(* (enqueue, cancel, reset, getStatus) runs to completion; processQueue    *)
(* runs synchronously up to its first await, so the first say process is   *)
(* spawned inside enqueue.  A 'close' or 'error' event of a child process  *)
(* runs its handler and then, in the microtasks of the same callback, the  *)
(* continuation of the drain loop that awaited this process.  Every action *)
(* below is one such callback, taken whole.                                *)
(*                                                                         *)
(* A child process emits either 'close', or 'error' and possibly 'close'   *)
(* later (a failed launch emits 'error' and then 'close' once its stdio    *)
(* streams are closed).  The promise of speak() is settled by the first of *)
(* the two events; the handlers of both stay registered.                   *)
(*                                                                         *)
(* Message ids: generateId builds the id from the clock and a random       *)
(* suffix; the model numbers the entries 1, 2, ... in enqueue order,       *)
(* except in SpecIds, where the clock and the suffix are drawn.            *)
(* The timestamp field of an entry is never read and is left out.          *)
(*                                                                         *)
(* The queue index.ts calls takes a voice with each text; the queue source *)
(* at hand does not.  The voice field of an entry and the -v argument of   *)
(* say follow the documented behaviour and the queue's tests.              *)
(***************************************************************************)
EXTENDS Integers, Sequences, FiniteSets, TLC

\* ---------------------------------------------------------------- bounds

\* number of enqueue calls explored
MaxMsgs == 3

\* number of entries the tools of index.ts enqueue
MaxCalls == 2

\* the limit index.ts constructs the queue with
maxMessageLength == 500

\* the texts the callers submit (sequences of characters); the queue never
\* looks into a text that is within the limit
Texts == { <<"h", "i">> }

\* exit codes a say process reports; 1 stands for every code that is not 0
\* (a non-zero code, or null when the process was ended by a signal)
ExitCodes == {0, 1}

\* an id no entry ever carries ('non-existent-id')
NoSuchId == 0

\* the largest limit a queue is constructed with when the limit is varied
MaxLimit == 5

\* the longest text submitted when the limit is varied
MaxTextLen == 6

\* how many of the voices of AVAILABLE_VOICES the registry hands out
NumVoices == 2

\* the voices, in the order of index.ts, cut to NumVoices
AVAILABLE_VOICES ==
  SubSeq(<<"Alex", "Daniel", "Fred", "Karen", "Moira",
           "Samantha", "Victoria", "Fiona", "Tessa", "Veena">>, 1, NumVoices)

\* the names getRandomName() draws from, cut to the first of RANDOM_NAMES:
\* the name fills the name field of a new session and the greeting, and no
\* code branches on it
RANDOM_NAMES == {"Alex"}

\* the session ids the clients present: one more than there are voices
SessionIds == {"s1", "s2", "s3"}

\* the session ids the clients present where the queue is followed in full
ServerIds == {"s1", "s2"}

\* the place of a session id in the order the clients first present them
Rank(sessionId) == CHOOSE n \in 1..3 : sessionId = <<"s1", "s2", "s3">>[n]

\* an empty string, where a tool call carries an empty or no argument
EmptyString == ""

\* the characters of those texts, all different so that a prefix is
\* recognised, and none of them a dot
Alphabet == <<"a", "b", "c", "d", "e", "f", "g", "h", "i", "j">>

\* the texts submitted when the limit is varied: one of each length
LongTexts == { SubSeq(Alphabet, 1, n) : n \in 0..MaxTextLen }

VARIABLES
  queue,           \* MessageQueue.queue: sequence of [id, message]
  isProcessing,    \* MessageQueue.isProcessing
  currentProcess,  \* MessageQueue.currentProcess: index into procs, 0 = null
  procs,           \* every say process spawned so far, in spawn order
  nextId,          \* the next fresh message id
  spoken,          \* log: the entries handed to spawn('say', ...), in order
  ret,             \* the value the last tool call returned
  maxLength,       \* MessageQueue.maxMessageLength, set by the constructor
  sessions,        \* SessionStorage.sessions: session id -> Session
  store,           \* the sessions file of this process id, on disk
  voiceIndex       \* index.ts voiceIndex, the round-robin cursor

vars == <<queue, isProcessing, currentProcess, procs, nextId, spoken, ret,
          maxLength, sessions, store, voiceIndex>>

\* the session registry of index.ts
regVars == <<sessions, store, voiceIndex>>

\* ------------------------------------------------------- pure helpers

Min(a, b) == IF a < b THEN a ELSE b
Max(a, b) == IF a > b THEN a ELSE b

\* String.prototype.substring(start, end): both clamped to [0, length],
\* swapped when start > end
substring(s, start, end) ==
  LET a == Min(Max(start, 0), Len(s))
      b == Min(Max(end, 0), Len(s))
  IN  SubSeq(s, Min(a, b) + 1, Max(a, b))

truncateMessage_KeepsTooMuch(message) ==
  IF Len(message) <= maxLength
    THEN message
    ELSE substring(message, 0, maxLength - 2) \o <<".", ".", ".">>

truncateMessage(message) ==
  IF Len(message) <= maxLength
    THEN message
    ELSE substring(message, 0, maxLength - 3) \o <<".", ".", ".">>

\* Array.prototype.findIndex on the id; 0 stands for JavaScript's -1 and the
\* positions are counted from 1
findIndex_NoMiss(q, messageId) ==
  IF \E i \in 1..Len(q) : q[i].id = messageId
    THEN CHOOSE i \in 1..Len(q) : q[i].id = messageId
    ELSE Min(1, Len(q))

findIndex(q, messageId) ==
  IF \E i \in 1..Len(q) : q[i].id = messageId
    THEN CHOOSE i \in 1..Len(q) :
           /\ q[i].id = messageId
           /\ \A j \in 1..(i - 1) : q[j].id # messageId
    ELSE 0

\* Array.prototype.splice(index, 1)
splice_NotAtIndex(q, index) == IF q = <<>> THEN q ELSE Tail(q)

splice_Nothing(q, index) == q

splice(q, index) == SubSeq(q, 1, index - 1) \o SubSeq(q, index + 1, Len(q))

\* Array.prototype.shift(): nothing happens on an empty array
shift(q) == IF q = <<>> THEN q ELSE Tail(q)

\* the ids of the entries of a sequence
Ids(q) == { q[i].id : i \in 1..Len(q) }

\* ------------------------------------------------------ the queue object

\* the fields the drain loop reads and writes, as one record
MQ == [queue |-> queue, isProcessing |-> isProcessing,
       currentProcess |-> currentProcess, procs |-> procs, spoken |-> spoken]

Install(mq) ==
  /\ queue' = mq.queue
  /\ isProcessing' = mq.isProcessing
  /\ currentProcess' = mq.currentProcess
  /\ procs' = mq.procs
  /\ spoken' = mq.spoken

\* the arguments spawn('say', ...) is given for an entry: the text, after
\* '-v' and the voice when the entry has one
sayArgs_NoVoice(message) == <<message.message>>

sayArgs(message) ==
  IF "voice" \in DOMAIN message
    THEN <<"-v", message.voice, message.message>>
    ELSE <<message.message>>

\* a say process just spawned for an entry
\*   state:   "running" (no event yet), "errored" ('error' emitted, 'close'
\*            may follow), "closed" ('close' emitted)
\*   outcome: the promise of speak(): "pending", "resolved", "rejected"
\*   killed:  kill() was called on the handle
\*   args:    the arguments of the say command
newProcess(message) ==
  [msg |-> message, args |-> sayArgs(message), state |-> "running",
   outcome |-> "pending", killed |-> FALSE]

\* speak(): spawn the process, keep its handle, register the two handlers
speak(mq, message) ==
  [mq EXCEPT !.procs = Append(mq.procs, newProcess(message)),
             !.currentProcess = Len(mq.procs) + 1,
             !.spoken = Append(mq.spoken, message)]

\* the head of the while loop of processQueue: speak queue[0] and suspend,
\* or leave the loop and clear the flag
whileLoop_LastEntry(mq) ==
  IF Len(mq.queue) > 0
    THEN speak(mq, mq.queue[Len(mq.queue)])
    ELSE [mq EXCEPT !.isProcessing = FALSE]

whileLoop_KeepsFlag(mq) ==
  IF Len(mq.queue) > 0
    THEN speak(mq, mq.queue[1])
    ELSE mq

whileLoop(mq) ==
  IF Len(mq.queue) > 0
    THEN speak(mq, mq.queue[1])
    ELSE [mq EXCEPT !.isProcessing = FALSE]

\* processQueue() up to its first suspension
processQueue_NoFlag(mq) ==
  IF mq.isProcessing \/ Len(mq.queue) = 0
    THEN mq
    ELSE whileLoop(mq)

processQueue(mq) ==
  IF mq.isProcessing \/ Len(mq.queue) = 0
    THEN mq
    ELSE whileLoop([mq EXCEPT !.isProcessing = TRUE])

\* the rest of the try block after the await: the promise was resolved
tryBranch_NoShift(mq) == mq

tryBranch(mq) == [mq EXCEPT !.queue = shift(mq.queue)]

\* the catch block: the promise was rejected
catchBranch_NoShift(mq) == mq

catchBranch(mq) == [mq EXCEPT !.queue = shift(mq.queue)]

\* the drain loop resumed with the outcome of the process it awaited
resume_NoLoop(mq, outcome) ==
  [(IF outcome = "resolved" THEN tryBranch(mq) ELSE catchBranch(mq))
     EXCEPT !.isProcessing = FALSE]

resume(mq, outcome) ==
  whileLoop(IF outcome = "resolved" THEN tryBranch(mq) ELSE catchBranch(mq))

\* stopCurrentPlayback()
stopCurrentPlayback(mq) ==
  IF mq.currentProcess # 0
    THEN [mq EXCEPT !.procs[mq.currentProcess].killed = TRUE,
                    !.currentProcess = 0]
    ELSE mq

\* getStatus(): the queue field is a copy of the array.  array says which
\* array object the field refers to: the one of this.queue, or a new one
\* made by the spread.
getStatus_SameArray ==
  [queueLength |-> Len(queue), isProcessing |-> isProcessing, queue |-> queue,
   array |-> "this.queue"]

getStatus ==
  [queueLength |-> Len(queue), isProcessing |-> isProcessing, queue |-> queue,
   array |-> "copy"]

\* --------------------------------------------------- the session registry

\* the content of the sessions file: no file, a file that JSON.parse or the
\* conversion to a Map rejects, or the JSON text of an array of sessions.
\* The array is kept as the set of its elements; the order of the elements
\* is the insertion order of the Map and nothing reads it.
noFile == [kind |-> "missing"]

corruptFile == [kind |-> "corrupt"]

jsonFile(sessionsArray) == [kind |-> "json", sessionsArray |-> sessionsArray]

\* the sessions file when writeFileSync on it throws (the file or its
\* directory was made read-only): what it held stays readable
readOnlyFile(file) == [kind |-> "readonly", content |-> file]

\* what readFileSync and existsSync see of the file
content(file) == IF file.kind = "readonly" THEN file.content ELSE file

\* new Map(sessionsArray.map(s => [s.id, s])): keyed by the id field of the
\* elements
newMap(sessionsArray) ==
  [id \in { s.id : s \in sessionsArray } |->
     CHOOSE s \in sessionsArray : s.id = id]

\* SessionStorage.load(): the Map of the file, or an empty Map when there is
\* no file or reading it throws
load(file) ==
  LET read == content(file)
  IN  IF read.kind = "json" THEN newMap(read.sessionsArray) ELSE newMap({})

\* SessionStorage.save(): the file rewritten in full with
\* JSON.stringify(Array.from(this.sessions.values()))
save_Nothing(map, file) == file

save_Appends(map, file) ==
  IF file.kind = "readonly"
    THEN file
    ELSE jsonFile({ map[id] : id \in DOMAIN map } \cup
                  (IF file.kind = "json" THEN file.sessionsArray ELSE {}))

save(map, file) ==
  IF file.kind = "readonly"
    THEN file
    ELSE jsonFile({ map[id] : id \in DOMAIN map })

\* the registry as one record
REG == [sessions |-> sessions, store |-> store, voiceIndex |-> voiceIndex]

InstallReg(reg) ==
  /\ sessions' = reg.sessions
  /\ store' = reg.store
  /\ voiceIndex' = reg.voiceIndex

\* SessionStorage.has / get
has(reg, sessionId) == sessionId \in DOMAIN reg.sessions

get(reg, sessionId) == reg.sessions[sessionId]

\* SessionStorage.set(sessionId, session): Map.set, then save()
set_RollsBack(reg, sessionId, session) ==
  LET map == [id \in DOMAIN reg.sessions \cup {sessionId} |->
                IF id = sessionId THEN session ELSE reg.sessions[id]]
  IN  IF reg.store.kind = "readonly" /\ sessionId \in DOMAIN reg.sessions
        THEN reg
        ELSE [reg EXCEPT !.sessions = map, !.store = save(map, reg.store)]

set_DropsOthers(reg, sessionId, session) ==
  LET map == [id \in {sessionId} |-> session]
  IN  [reg EXCEPT !.sessions = map, !.store = save(map, reg.store)]

set(reg, sessionId, session) ==
  LET map == [id \in DOMAIN reg.sessions \cup {sessionId} |->
                IF id = sessionId THEN session ELSE reg.sessions[id]]
  IN  [reg EXCEPT !.sessions = map, !.store = save(map, reg.store)]

\* getNextVoice(): the voice under the cursor; the caller advances the cursor
getNextVoice_First(reg) == AVAILABLE_VOICES[1]

getNextVoice(reg) ==
  AVAILABLE_VOICES[(reg.voiceIndex % Len(AVAILABLE_VOICES)) + 1]

\* getOrCreateSession(sessionId); name is what getRandomName() returns when
\* it is called
getOrCreateSession_CreatesEnabled(reg, sessionId, name) ==
  IF ~has(reg, sessionId)
    THEN set([reg EXCEPT !.voiceIndex = reg.voiceIndex + 1], sessionId,
             [id |-> sessionId, name |-> name, voice |-> getNextVoice(reg),
              enabled |-> TRUE])
    ELSE reg

getOrCreateSession_AdvancesCursor(reg, sessionId, name) ==
  IF ~has(reg, sessionId)
    THEN set([reg EXCEPT !.voiceIndex = reg.voiceIndex + 1], sessionId,
             [id |-> sessionId, name |-> name, voice |-> getNextVoice(reg),
              enabled |-> FALSE])
    ELSE [reg EXCEPT !.voiceIndex = reg.voiceIndex + 1]

getOrCreateSession_Recreate(reg, sessionId, name) ==
  set([reg EXCEPT !.voiceIndex = reg.voiceIndex + 1], sessionId,
      [id |-> sessionId, name |-> name, voice |-> getNextVoice(reg),
       enabled |-> FALSE])

getOrCreateSession(reg, sessionId, name) ==
  IF ~has(reg, sessionId)
    THEN set([reg EXCEPT !.voiceIndex = reg.voiceIndex + 1], sessionId,
             [id |-> sessionId, name |-> name, voice |-> getNextVoice(reg),
              enabled |-> FALSE])
    ELSE reg

\* getIntroduction(session): the greeting, as the pieces of its template
getIntroduction(session) ==
  <<"Hello! I'm ", session.name,
    ", your voice assistant through the Talkback MCP server.">>

\* ---------------------------------------------------------------- Init

\* a queue just constructed with this limit
constructor(limit) ==
  /\ queue = <<>>
  /\ isProcessing = FALSE
  /\ currentProcess = 0
  /\ procs = <<>>
  /\ nextId = 1
  /\ spoken = <<>>
  /\ maxLength = limit

\* the module body of index.ts, run once when the process starts on a disk
\* that holds no sessions file for its process id
Init ==
  /\ constructor(maxMessageLength)
  /\ ret = [op |-> "none"]
  /\ store = noFile
  /\ sessions = load(noFile)
  /\ voiceIndex = 0

\* ------------------------------------------------------------- actions

\* enqueue(message)
enqueue(message) ==
  /\ nextId <= MaxMsgs
  /\ LET queuedMessage == [id |-> nextId, message |-> truncateMessage(message)]
         pushed == [MQ EXCEPT !.queue = Append(queue, queuedMessage)]
     IN  /\ Install(IF ~pushed.isProcessing THEN processQueue(pushed) ELSE pushed)
         /\ ret' = [op |-> "enqueue", val |-> queuedMessage]
  /\ nextId' = nextId + 1

\* cancel(messageId)
cancel(messageId) ==
  LET index == findIndex(queue, messageId)
  IN  /\ IF index # 0
           THEN /\ queue' = splice(queue, index)
                /\ ret' = [op |-> "cancel", arg |-> messageId, val |-> TRUE]
           ELSE /\ queue' = queue
                /\ ret' = [op |-> "cancel", arg |-> messageId, val |-> FALSE]
      /\ UNCHANGED <<isProcessing, currentProcess, procs, nextId, spoken>>

\* reset()
reset_ClearsFlag ==
  /\ Install([stopCurrentPlayback([MQ EXCEPT !.queue = <<>>])
                EXCEPT !.isProcessing = FALSE])
  /\ ret' = [op |-> "reset"]
  /\ UNCHANGED nextId

reset_KeepsQueue ==
  /\ Install(stopCurrentPlayback(MQ))
  /\ ret' = [op |-> "reset"]
  /\ UNCHANGED nextId

reset ==
  /\ Install(stopCurrentPlayback([MQ EXCEPT !.queue = <<>>]))
  /\ ret' = [op |-> "reset"]
  /\ UNCHANGED nextId

\* getStatus() called by a client
status ==
  /\ ret' = [op |-> "status", val |-> getStatus]
  /\ UNCHANGED <<queue, isProcessing, currentProcess, procs, nextId, spoken>>

\* the outcome a 'close' with this code gives the promise
closeOutcome(code) == IF code = 0 THEN "resolved" ELSE "rejected"

\* the 'close' handler of process p, and the drain loop when it awaited p
onClose(p, code) ==
  /\ p \in 1..Len(procs)
  /\ procs[p].state # "closed"
  /\ LET handled == [MQ EXCEPT !.currentProcess = 0,
                               !.procs[p].state = "closed"]
     IN  IF procs[p].outcome = "pending"
           THEN Install(resume([handled EXCEPT !.procs[p].outcome = closeOutcome(code)],
                               closeOutcome(code)))
           ELSE Install(handled)
  /\ UNCHANGED <<nextId, ret>>

\* the 'error' handler of process p, and the drain loop when it awaited p
onError(p) ==
  /\ p \in 1..Len(procs)
  /\ procs[p].state = "running"
  /\ Install(resume([MQ EXCEPT !.currentProcess = 0,
                               !.procs[p].state = "errored",
                               !.procs[p].outcome = "rejected"],
                    "rejected"))
  /\ UNCHANGED <<nextId, ret>>

QueueNext ==
  \/ \E message \in Texts : enqueue(message)
  \/ \E messageId \in {NoSuchId} \cup 1..(nextId - 1) : cancel(messageId)
  \/ reset
  \/ status
  \/ \E p \in 1..Len(procs) : \E code \in ExitCodes : onClose(p, code)
  \/ \E p \in 1..Len(procs) : onError(p)

Next == QueueNext /\ UNCHANGED <<maxLength, regVars>>

Spec == Init /\ [][Next]_vars

\* ------------------------------------------------- the tools of index.ts

\* an argument that fails the checks of a tool: empty, absent or not a
\* string, as a session id, a message and a message id
EmptyMessage == <<>>

EmptyId == 0 - 1

\* the check of a session id argument: a string, and not the empty one
validSessionId_Any(sessionId) == TRUE

validSessionId(sessionId) == sessionId # EmptyString

\* the response of the catch block; of the responses of the tools the model
\* keeps the tool name, the success field and the error field
errorResponse(name, error) == [op |-> name, success |-> FALSE, error |-> error]

\* the entry enqueue(message, voice) builds
queuedMessageWithVoice(message, voice) ==
  [id |-> nextId, message |-> truncateMessage(message), voice |-> voice]

\* enqueue(message, voice) after the entry is built: push it and start the
\* drain loop when none runs
push_Front(mq, queuedMessage) ==
  LET pushed == [mq EXCEPT !.queue = <<queuedMessage>> \o mq.queue]
  IN  IF ~pushed.isProcessing THEN processQueue(pushed) ELSE pushed

push(mq, queuedMessage) ==
  LET pushed == [mq EXCEPT !.queue = Append(mq.queue, queuedMessage)]
  IN  IF ~pushed.isProcessing THEN processQueue(pushed) ELSE pushed

\* case 'enable'
enable(sessionId, name) ==
  IF ~validSessionId(sessionId)
    THEN /\ ret' = errorResponse("enable", "Session ID must be a non-empty string")
         /\ UNCHANGED <<queue, isProcessing, currentProcess, procs, nextId,
                        spoken, maxLength, regVars>>
    ELSE /\ nextId <= MaxCalls
         /\ LET created == getOrCreateSession(REG, sessionId, name)
                session == [get(created, sessionId) EXCEPT !.enabled = TRUE]
                introduction == getIntroduction(session)
                queuedMessage == queuedMessageWithVoice(introduction, session.voice)
            IN  /\ InstallReg(set(created, sessionId, session))
                /\ Install(push(MQ, queuedMessage))
                /\ ret' = [op |-> "enable", success |-> TRUE]
         /\ nextId' = nextId + 1
         /\ UNCHANGED maxLength

\* case 'disable'
disable_DropsEntries(sessionId, name) ==
  IF ~validSessionId(sessionId)
    THEN /\ ret' = errorResponse("disable", "Session ID must be a non-empty string")
         /\ UNCHANGED <<queue, isProcessing, currentProcess, procs, nextId,
                        spoken, maxLength, regVars>>
    ELSE /\ LET created == getOrCreateSession(REG, sessionId, name)
                session == [get(created, sessionId) EXCEPT !.enabled = FALSE]
            IN  /\ InstallReg(set(created, sessionId, session))
                /\ queue' = IF Len(queue) > 1 /\ queue[Len(queue)].voice = session.voice
                              THEN SubSeq(queue, 1, Len(queue) - 1)
                              ELSE queue
                /\ ret' = [op |-> "disable", success |-> TRUE]
         /\ UNCHANGED <<isProcessing, currentProcess, procs, nextId,
                        spoken, maxLength>>

disable(sessionId, name) ==
  IF ~validSessionId(sessionId)
    THEN /\ ret' = errorResponse("disable", "Session ID must be a non-empty string")
         /\ UNCHANGED <<queue, isProcessing, currentProcess, procs, nextId,
                        spoken, maxLength, regVars>>
    ELSE /\ LET created == getOrCreateSession(REG, sessionId, name)
                session == [get(created, sessionId) EXCEPT !.enabled = FALSE]
            IN  /\ InstallReg(set(created, sessionId, session))
                /\ ret' = [op |-> "disable", success |-> TRUE]
         /\ UNCHANGED <<queue, isProcessing, currentProcess, procs, nextId,
                        spoken, maxLength>>

\* case 'speak'
speakTool_NoCreate(message, sessionId, name) ==
  IF message = EmptyMessage
    THEN /\ ret' = errorResponse("speak", "Message must be a non-empty string")
         /\ UNCHANGED <<queue, isProcessing, currentProcess, procs, nextId,
                        spoken, maxLength, regVars>>
  ELSE IF ~validSessionId(sessionId)
    THEN /\ ret' = errorResponse("speak", "Session ID must be a non-empty string")
         /\ UNCHANGED <<queue, isProcessing, currentProcess, procs, nextId,
                        spoken, maxLength, regVars>>
  ELSE IF ~has(REG, sessionId) \/ ~get(REG, sessionId).enabled
    THEN /\ ret' = errorResponse("speak", "Speech is not enabled for this session")
         /\ UNCHANGED <<queue, isProcessing, currentProcess, procs, nextId,
                        spoken, maxLength, regVars>>
  ELSE /\ nextId <= MaxCalls
       /\ Install(push(MQ, queuedMessageWithVoice(message, get(REG, sessionId).voice)))
       /\ ret' = [op |-> "speak", success |-> TRUE]
       /\ nextId' = nextId + 1
       /\ UNCHANGED <<maxLength, regVars>>

speakTool(message, sessionId, name) ==
  IF message = EmptyMessage
    THEN /\ ret' = errorResponse("speak", "Message must be a non-empty string")
         /\ UNCHANGED <<queue, isProcessing, currentProcess, procs, nextId,
                        spoken, maxLength, regVars>>
  ELSE IF ~validSessionId(sessionId)
    THEN /\ ret' = errorResponse("speak", "Session ID must be a non-empty string")
         /\ UNCHANGED <<queue, isProcessing, currentProcess, procs, nextId,
                        spoken, maxLength, regVars>>
  ELSE LET created == getOrCreateSession(REG, sessionId, name)
           session == get(created, sessionId)
           queuedMessage == queuedMessageWithVoice(message, session.voice)
       IN  IF ~session.enabled
             THEN /\ InstallReg(created)
                  /\ ret' = errorResponse("speak", "Speech is not enabled for this session")
                  /\ UNCHANGED <<queue, isProcessing, currentProcess, procs,
                                 nextId, spoken, maxLength>>
             ELSE /\ nextId <= MaxCalls
                  /\ InstallReg(created)
                  /\ Install(push(MQ, queuedMessage))
                  /\ ret' = [op |-> "speak", success |-> TRUE]
                  /\ nextId' = nextId + 1
                  /\ UNCHANGED maxLength

\* case 'cancel_message'
cancel_message(messageId) ==
  IF messageId = EmptyId
    THEN /\ ret' = errorResponse("cancel_message", "Message ID must be a non-empty string")
         /\ UNCHANGED <<queue, isProcessing, currentProcess, procs, nextId,
                        spoken, maxLength, regVars>>
    ELSE LET index == findIndex(queue, messageId)
         IN  /\ queue' = IF index # 0 THEN splice(queue, index) ELSE queue
             /\ ret' = [op |-> "cancel_message", success |-> index # 0]
             /\ UNCHANGED <<isProcessing, currentProcess, procs, nextId,
                            spoken, maxLength, regVars>>

\* case 'reset_queue'
reset_queue ==
  /\ Install(stopCurrentPlayback([MQ EXCEPT !.queue = <<>>]))
  /\ ret' = [op |-> "reset_queue", success |-> TRUE]
  /\ UNCHANGED <<nextId, maxLength, regVars>>

\* case 'get_queue_status'
get_queue_status ==
  /\ ret' = [op |-> "get_queue_status", success |-> TRUE]
  /\ UNCHANGED <<queue, isProcessing, currentProcess, procs, nextId, spoken,
                 maxLength, regVars>>

\* the sessions file is overwritten from outside with text that does not
\* parse
corrupt ==
  /\ store # corruptFile
  /\ store' = corruptFile
  /\ UNCHANGED <<queue, isProcessing, currentProcess, procs, nextId, spoken,
                 ret, maxLength, sessions, voiceIndex>>

restart_KeepsSessions ==
  /\ Install([queue |-> <<>>, isProcessing |-> FALSE, currentProcess |-> 0,
              procs |-> <<>>, spoken |-> <<>>])
  /\ ret' = [op |-> "restart"]
  /\ UNCHANGED <<nextId, maxLength, regVars>>

\* the process ends and a process with the same process id starts: the
\* module body of index.ts runs again on the sessions file as it is.  The
\* ids of the new queue are later than those of the old one.
restart ==
  /\ Install([queue |-> <<>>, isProcessing |-> FALSE, currentProcess |-> 0,
              procs |-> <<>>, spoken |-> <<>>])
  /\ nextId' = nextId
  /\ maxLength' = maxMessageLength
  /\ sessions' = load(store)
  /\ voiceIndex' = 0
  /\ ret' = [op |-> "restart"]
  /\ UNCHANGED store

\* Session ids are opaque to the server.  The clients present the known ids
\* in any order and, of the ids the registry does not know, the first one.
Presented(ids) ==
  (ids \cap DOMAIN sessions) \cup
  { sessionId \in ids \ DOMAIN sessions :
      \A other \in ids \ DOMAIN sessions : Rank(sessionId) <= Rank(other) }

\* a call of one of the tools
ToolCall(ids) ==
  \/ \E sessionId \in Presented(ids) \cup {EmptyString} :
       \E name \in RANDOM_NAMES : enable(sessionId, name)
  \/ \E sessionId \in Presented(ids) \cup {EmptyString} :
       \E name \in RANDOM_NAMES : disable(sessionId, name)
  \/ \E message \in Texts \cup {EmptyMessage} :
       \E sessionId \in Presented(ids) \cup {EmptyString} :
         \E name \in RANDOM_NAMES : speakTool(message, sessionId, name)
  \/ \E messageId \in {EmptyId, NoSuchId} \cup 1..(nextId - 1) :
       cancel_message(messageId)
  \/ reset_queue
  \/ get_queue_status

\* a say process ends, with any exit code
ProcessEvent ==
  /\ \E p \in 1..Len(procs) : \E code \in ExitCodes : onClose(p, code)
  /\ UNCHANGED <<maxLength, regVars>>

ServerNext ==
  \/ ToolCall(ServerIds)
  \/ ProcessEvent

SpecServer == Init /\ [][ServerNext]_vars

\* ------------------------------------- the registry behind the tools

\* the calls that go through getOrCreateSession, with one more session id
\* than there are voices; the say processes ending normally; the file
\* overwritten; the process started again
RegistryNext ==
  \/ \E sessionId \in Presented(SessionIds) \cup {EmptyString} :
       \E name \in RANDOM_NAMES : enable(sessionId, name)
  \/ \E sessionId \in Presented(SessionIds) \cup {EmptyString} :
       \E name \in RANDOM_NAMES : disable(sessionId, name)
  \/ \E message \in Texts \cup {EmptyMessage} :
       \E sessionId \in Presented(SessionIds) \cup {EmptyString} :
         \E name \in RANDOM_NAMES : speakTool(message, sessionId, name)
  \/ /\ \E p \in 1..Len(procs) : onClose(p, 0)
     /\ UNCHANGED <<maxLength, regVars>>
  \/ corrupt
  \/ restart

SpecRegistry == Init /\ [][RegistryNext]_vars

\* --------------------------- the registry on a file that may be read-only

\* the sessions file is made read-only from outside, and writable again
protect ==
  /\ store.kind # "readonly"
  /\ store' = readOnlyFile(store)
  /\ UNCHANGED <<queue, isProcessing, currentProcess, procs, nextId, spoken,
                 ret, maxLength, sessions, voiceIndex>>

unprotect ==
  /\ store.kind = "readonly"
  /\ store' = store.content
  /\ UNCHANGED <<queue, isProcessing, currentProcess, procs, nextId, spoken,
                 ret, maxLength, sessions, voiceIndex>>

WriteNext ==
  \/ \E sessionId \in Presented(ServerIds) \cup {EmptyString} :
       \E name \in RANDOM_NAMES : enable(sessionId, name)
  \/ \E sessionId \in Presented(ServerIds) \cup {EmptyString} :
       \E name \in RANDOM_NAMES : disable(sessionId, name)
  \/ \E message \in Texts \cup {EmptyMessage} :
       \E sessionId \in Presented(ServerIds) \cup {EmptyString} :
         \E name \in RANDOM_NAMES : speakTool(message, sessionId, name)
  \/ /\ \E p \in 1..Len(procs) : onClose(p, 0)
     /\ UNCHANGED <<maxLength, regVars>>
  \/ protect
  \/ unprotect
  \/ restart

SpecWrite == Init /\ [][WriteNext]_vars

\* ------------------------------- the queue and the holder of a status

\* the element the holder of a status adds to its list
fakeEntry == [id |-> NoSuchId, message |-> <<"f">>]

\* the holder of the last status calls pop() on its queue field: the array
\* the field refers to loses its last element
snapshotPop ==
  /\ ret.op = "status"
  /\ ret.val.queue # <<>>
  /\ ret' = [ret EXCEPT !.val.queue = SubSeq(@, 1, Len(@) - 1)]
  /\ queue' = IF ret.val.array = "this.queue"
                THEN SubSeq(queue, 1, Len(queue) - 1)
                ELSE queue
  /\ UNCHANGED <<isProcessing, currentProcess, procs, nextId, spoken>>

\* the holder of the last status calls push() on its queue field
snapshotPush ==
  /\ ret.op = "status"
  /\ Len(ret.val.queue) <= MaxMsgs
  /\ ret' = [ret EXCEPT !.val.queue = Append(@, fakeEntry)]
  /\ queue' = IF ret.val.array = "this.queue"
                THEN Append(queue, fakeEntry)
                ELSE queue
  /\ UNCHANGED <<isProcessing, currentProcess, procs, nextId, spoken>>

SnapshotNext ==
  /\ \/ \E message \in Texts : enqueue(message)
     \/ status
     \/ \E p \in 1..Len(procs) : \E code \in ExitCodes : onClose(p, code)
     \/ snapshotPop
     \/ snapshotPush
  /\ UNCHANGED <<maxLength, regVars>>

SpecSnapshot == Init /\ [][SnapshotNext]_vars

\* ------------------------------------- the queue, its ids as generated

\* Date.now(): the wall clock in milliseconds, which two calls made within
\* one millisecond read alike
MaxClock == 2

Clock == 1..MaxClock

\* Math.random().toString(36).substring(2, 9)
Suffixes == {"a", "b"}

generateId_NoSuffix(now, random) == <<"msg", now>>

\* generateId(): `msg_${Date.now()}_${suffix}`
generateId(now, random) == <<"msg", now, random>>

\* enqueue(message) when the clock reads now and Math.random gives random
enqueueAt(message, now, random) ==
  /\ nextId <= MaxMsgs
  /\ LET queuedMessage == [id |-> generateId(now, random),
                           message |-> truncateMessage(message)]
         pushed == [MQ EXCEPT !.queue = Append(queue, queuedMessage)]
     IN  /\ Install(IF ~pushed.isProcessing THEN processQueue(pushed) ELSE pushed)
         /\ ret' = [op |-> "enqueue", val |-> queuedMessage]
  /\ nextId' = nextId + 1

IdsNext ==
  /\ \/ \E message \in Texts : \E now \in Clock : \E random \in Suffixes :
          enqueueAt(message, now, random)
     \/ \E messageId \in Ids(queue) \cup Ids(spoken) : cancel(messageId)
     \/ \E p \in 1..Len(procs) : \E code \in ExitCodes : onClose(p, code)
  /\ UNCHANGED <<maxLength, regVars>>

SpecIds == Init /\ [][IdsNext]_vars

\* ------------------------------------------- the queue, its limit varied

\* a queue constructed with any limit from 0 up
InitLimit ==
  /\ \E limit \in 0..MaxLimit : constructor(limit)
  /\ ret = [op |-> "none"]
  /\ store = noFile
  /\ sessions = load(noFile)
  /\ voiceIndex = 0

NextLimit ==
  /\ \/ \E message \in LongTexts : enqueue(message)
     \/ \E p \in 1..Len(procs) : \E code \in ExitCodes : onClose(p, code)
  /\ UNCHANGED <<maxLength, regVars>>

SpecLimit == InitLimit /\ [][NextLimit]_vars

\* ------------------------------------------------------ what claims read

\* the say processes whose outcome a drain loop still awaits
Outstanding == { p \in 1..Len(procs) : procs[p].outcome = "pending" }

\* the entry with this id is dispatched and its outcome not yet observed
InFlight(messageId) == \E p \in Outstanding : procs[p].msg.id = messageId

\* the entry with this id was enqueued, is not in the queue and was never
\* handed to the executor
RemovedUnspoken(messageId) ==
  /\ messageId \in 1..(nextId - 1)
  /\ messageId \notin Ids(queue)
  /\ messageId \notin Ids(spoken)

\* every id a cancel call is tried with
CancelArgs == {NoSuchId} \cup 1..MaxMsgs

\* a process event of p that rejects the promise of speak()
failure(p) == onError(p) \/ \E code \in ExitCodes \ {0} : onClose(p, code)

\* any process event of p
notification(p) == onError(p) \/ \E code \in ExitCodes : onClose(p, code)

\* ---------------------------------------------------------------- C1

\* C1: single-flight. In every reachable state at most one say process is
\* outstanding (spawned, and its outcome still awaited by a drain loop).
C1_SingleFlight == Cardinality(Outstanding) <= 1

\* a second process is outstanding after the first one ended, while a
\* further entry waits behind the one being spoken
C1_Witness ==
  /\ Cardinality(Outstanding) = 1
  /\ Len(procs) >= 2
  /\ Len(queue) >= 2
  /\ isProcessing

\* ---------------------------------------------------------------- C2

\* C2: FIFO. The entries handed to the executor appear in the log in
\* strictly increasing id order; ids are given in enqueue order, so the log
\* is a subsequence of the enqueue order, whatever cancels and resets came
\* in between.
C2_FIFO ==
  \A i, j \in 1..Len(spoken) : i < j => spoken[i].id < spoken[j].id

\* three entries were enqueued; the first and the third were spoken, the
\* second was taken out in between
C2_Witness ==
  /\ Len(spoken) = 2
  /\ spoken[1].id = 1
  /\ spoken[2].id = 3

\* ---------------------------------------------------------------- C3

\* C3: an entry leaves the queue only by the outcome of its own speech, by
\* a cancel with its own id, or by a reset: in every step, each id that is
\* in the queue before and not after is the id the cancel was called with,
\* or the step is a reset, or the step is an event of the process that was
\* started for that entry.
C3_RemovedOnlyByOwnOutcomeCancelOrReset ==
  [][\A id \in Ids(queue) \ Ids(queue') :
        \/ cancel(id)
        \/ reset
        \/ \E p \in 1..Len(procs) : procs[p].msg.id = id /\ notification(p)]_vars

\* ---------------------------------------------------------------- C4

\* C4: every entry that is neither cancelled nor in the queue at a reset is
\* handed to the executor. The drain loop only ever hands over an entry of
\* the queue and ids never come back, so an entry that leaves the queue
\* unspoken is never spoken: in every step, each id that leaves the queue
\* is the target of this cancel, or is removed by this reset, or has been
\* handed to the executor.
C4_LeavesQueueOnlySpokenCancelledOrReset ==
  [][\A id \in Ids(queue) \ Ids(queue') :
        \/ cancel(id)
        \/ reset
        \/ id \in Ids(spoken')]_vars

\* ---------------------------------------------------------------- C5

\* C5: a cancel with the id of the entry in flight returns false and leaves
\* the queue as it is.
C5_CancelInFlightRefused ==
  [][\A id \in CancelArgs :
        (cancel(id) /\ InFlight(id)) => (ret'.val = FALSE /\ queue' = queue)]_vars

\* ---------------------------------------------------------------- C6

\* C6: a cancel with an id that is in the queue returns true and removes
\* exactly the entry with that id: the queue afterwards is the queue before
\* without that entry, the others in their previous order, one shorter.
C6_CancelRemovesExactlyThatEntry ==
  [][\A id \in CancelArgs :
        (cancel(id) /\ id \in Ids(queue)) =>
          LET Others(m) == m.id # id
          IN  /\ ret'.val = TRUE
              /\ queue' = SelectSeq(queue, Others)
              /\ Len(queue') = Len(queue) - 1]_vars

\* three entries, the second cancelled: length 2, order first, third
C6_Witness ==
  /\ ret = [op |-> "cancel", arg |-> 2, val |-> TRUE]
  /\ Len(queue) = 2
  /\ queue[1].id = 1
  /\ queue[2].id = 3

\* ---------------------------------------------------------------- C7

\* C7: cancellation is idempotent. A cancel with an id that is not in the
\* queue (never enqueued, or gone) returns false and changes nothing of the
\* queue object; a cancel with the id of a waiting entry returns true and
\* the id is gone from the queue afterwards; and an id that is not in the
\* queue (an id never given out, or one that has left) is not in the queue
\* after any step, so every later cancel with it returns false.
C7_CancelIdempotent ==
  [][\A id \in CancelArgs :
        /\ cancel(id) =>
             /\ id \notin Ids(queue) =>
                  /\ ret'.val = FALSE
                  /\ UNCHANGED <<queue, isProcessing, currentProcess, procs, spoken>>
             /\ (id \in Ids(queue) /\ id \notin Ids(spoken)) =>
                  (ret'.val = TRUE /\ id \notin Ids(queue'))
        /\ (id < nextId /\ id \notin Ids(queue)) => id \notin Ids(queue')]_vars

\* entry 2 was enqueued behind entry 1, whose process is still running and
\* was never killed: no drain-loop step and no reset has happened since, so
\* entry 2 left the queue by a cancel that returned true; the last call was
\* a cancel of 2 again, and it returned false
C7_Witness ==
  /\ ret = [op |-> "cancel", arg |-> 2, val |-> FALSE]
  /\ nextId >= 3
  /\ Len(procs) = 1
  /\ procs[1].state = "running"
  /\ ~procs[1].killed
  /\ Ids(queue) = {1}

\* ---------------------------------------------------------------- C8

\* C8: an entry whose cancel returned true while it was waiting (it had not
\* been handed to the executor) is never handed to the executor afterwards:
\* such a cancel leaves the entry out of the queue and unspoken, and an
\* entry that is out of the queue and unspoken stays so in every step.
C8_CancelledWaitingNeverSpoken ==
  [][\A id \in 1..MaxMsgs :
        /\ (cancel(id) /\ ret'.val = TRUE /\ id \notin Ids(spoken)) =>
             RemovedUnspoken(id)'
        /\ RemovedUnspoken(id) => RemovedUnspoken(id)']_vars

\* the waiting entry 2 was cancelled with success, and the drain loop has
\* since finished entry 1 and handed entry 3 to the executor
C8_Witness ==
  /\ ret = [op |-> "cancel", arg |-> 2, val |-> TRUE]
  /\ RemovedUnspoken(2)
  /\ Len(spoken) = 2
  /\ spoken[2].id = 3

\* ---------------------------------------------------------------- C9

\* C9: reset empties the queue, and every say process that is outstanding
\* when reset is called has been sent the termination signal when reset
\* returns.
C9_ResetEmptiesAndTerminates ==
  [][reset =>
        /\ Len(queue') = 0
        /\ \A p \in Outstanding : procs'[p].killed]_vars

\* ---------------------------------------------------------------- C10

\* C10: a soft failure does not stall the queue. When the process awaited
\* for the head entry is rejected (non-zero exit, or 'error'), that entry is
\* removed, it is not handed to the executor again, and the next entry, if
\* there is one, is handed to the executor in the same step; with no next
\* entry the drain loop goes idle.
C10_SoftFailureAdvances ==
  [][\A p \in 1..Len(procs) :
        ( /\ failure(p)
          /\ procs[p].outcome = "pending"
          /\ queue # <<>>
          /\ queue[1] = procs[p].msg ) =>
          /\ queue' = Tail(queue)
          /\ procs'[p].outcome = "rejected"
          /\ IF Tail(queue) # <<>>
               THEN /\ spoken' = Append(spoken, Head(Tail(queue)))
                    /\ procs'[Len(procs')].msg = Head(Tail(queue))
                    /\ procs'[Len(procs')].outcome = "pending"
                    /\ isProcessing'
               ELSE /\ spoken' = spoken
                    /\ ~isProcessing']_vars

\* a process failed and the entry behind it is now being spoken
C10_Witness ==
  \E p \in 1..Len(procs) :
    /\ procs[p].outcome = "rejected"
    /\ ~procs[p].killed
    /\ p < Len(procs)
    /\ procs[p + 1].msg.id = procs[p].msg.id + 1
    /\ procs[p + 1].outcome = "pending"

\* ------------------------------------------------------------ truncation

\* what the documentation says is stored for a text under a limit
StoredAsDocumented(text, stored, limit) ==
  /\ Len(stored) <= limit
  /\ Len(text) > limit =>
       /\ stored = SubSeq(text, 1, limit - 3) \o <<".", ".", ".">>
       /\ Len(stored) = limit
  /\ Len(text) <= limit => stored = text

\* C11 as stated: under every limit, every enqueue stores a text no longer
\* than the limit: the text itself when it fits, otherwise its first
\* limit - 3 characters followed by "...", of length exactly the limit.
\* Violated under a limit below 3, where "..." alone is already too long.
C11_TruncationUnderEveryLimit ==
  [][\A message \in LongTexts :
       enqueue(message) =>
         StoredAsDocumented(message, ret'.val.message, maxLength)]_vars

\* C11 amended: the same under every limit of at least 3.
C11_TruncationUnderLimitAtLeast3 ==
  [][\A message \in LongTexts :
       (maxLength >= 3 /\ enqueue(message)) =>
         StoredAsDocumented(message, ret'.val.message, maxLength)]_vars

\* a text of more than 5 characters was enqueued under the limit 5 and
\* stored as its first two characters and the ellipsis
C11_Witness ==
  /\ maxLength = 5
  /\ ret.op = "enqueue"
  /\ ret.val.message = <<"a", "b", ".", ".", ".">>

\* ----------------------------------------------------- voices and sessions

CallFor(sessionId) ==
  \E name \in RANDOM_NAMES :
    \/ enable(sessionId, name)
    \/ disable(sessionId, name)
    \/ \E message \in Texts \cup {EmptyMessage} :
         speakTool(message, sessionId, name)

\* a call of enable, disable or speak
RegistryCall == \E sessionId \in SessionIds \cup {EmptyString} : CallFor(sessionId)

\* a call that makes the registry store a session under this id: enable,
\* disable, or a speak that sees the id for the first time
Stores(sessionId) ==
  \E name \in RANDOM_NAMES :
    \/ enable(sessionId, name)
    \/ disable(sessionId, name)
    \/ /\ sessionId \notin DOMAIN sessions
       /\ \E message \in Texts : speakTool(message, sessionId, name)

C15_RoundRobin ==
  [][\A sessionId \in SessionIds \cup {EmptyString} :
       CallFor(sessionId) =>
         IF sessionId \in DOMAIN sessions' \ DOMAIN sessions
           THEN /\ sessions'[sessionId].voice =
                     AVAILABLE_VOICES[(voiceIndex % Len(AVAILABLE_VOICES)) + 1]
                /\ voiceIndex' = voiceIndex + 1
           ELSE /\ voiceIndex' = voiceIndex
                /\ DOMAIN sessions' = DOMAIN sessions]_vars

\* the third new session of a process came after the cursor had passed the
\* end of the pool and was given the first voice again
C15_Witness ==
  /\ DOMAIN sessions = SessionIds
  /\ voiceIndex = 3
  /\ sessions["s1"].voice = AVAILABLE_VOICES[1]
  /\ sessions["s2"].voice = AVAILABLE_VOICES[2]
  /\ sessions["s3"].voice = AVAILABLE_VOICES[(2 % Len(AVAILABLE_VOICES)) + 1]

\* C16: any two distinct session ids the registry knows have different
\* voices.  Violated when there are more sessions than voices, and when a
\* session is created after the process was started on a file that holds
\* sessions (the cursor starts at 0 again).
C16_UniqueVoices ==
  \A a, b \in DOMAIN sessions :
    a # b => sessions[a].voice # sessions[b].voice

\* C19: a process started on a disk without a sessions file, or with a
\* sessions file that does not parse, starts, and its registry knows no
\* session id.
C19_FailOpenLoad ==
  [][(restart /\ store.kind \in {"missing", "corrupt"}) =>
       /\ \A id \in SessionIds : id \notin DOMAIN sessions'
       /\ ret'.op = "restart"]_vars

\* a process was started on a file that does not parse, and knows no session
C19_Witness ==
  /\ ret.op = "restart"
  /\ store = corruptFile
  /\ DOMAIN sessions = {}

\* ------------------------------------------------------ the tools' gates

\* C17: a speak call for a session that is unknown or whose enabled flag is
\* false returns a failure, changes nothing of the queue and leaves the
\* session with the flag false (a session is created with the flag false); a
\* speak call for a session whose flag is true enqueues one entry.  The flag
\* is true after an enable of the session, false after a disable of it, and
\* no other call changes it: it is what the most recent of the two set.
C17_SpeakGatedByEnabled ==
  [][\A sessionId \in ServerIds : \A name \in RANDOM_NAMES :
       /\ \A message \in Texts :
            speakTool(message, sessionId, name) =>
              IF sessionId \in DOMAIN sessions /\ sessions[sessionId].enabled
                THEN /\ ret'.success
                     /\ Len(queue') = Len(queue) + 1
                ELSE /\ ~ret'.success
                     /\ ~sessions'[sessionId].enabled
                     /\ UNCHANGED <<queue, isProcessing, currentProcess,
                                    procs, spoken, nextId>>
       /\ enable(sessionId, name) => sessions'[sessionId].enabled
       /\ disable(sessionId, name) => ~sessions'[sessionId].enabled
       /\ ( /\ sessionId \in DOMAIN sessions
            /\ ~enable(sessionId, name)
            /\ ~disable(sessionId, name) ) =>
            sessions'[sessionId].enabled = sessions[sessionId].enabled]_vars

\* s1 was enabled (its greeting is in the queue), then disabled, and its
\* speak call was refused
C17_Witness ==
  /\ DOMAIN sessions = {"s1"}
  /\ ~sessions["s1"].enabled
  /\ Len(queue) = 1
  /\ ret = errorResponse("speak", "Speech is not enabled for this session")

InvalidCall ==
  \/ \E name \in RANDOM_NAMES :
       \/ enable(EmptyString, name)
       \/ disable(EmptyString, name)
       \/ \E sessionId \in ServerIds \cup {EmptyString} :
            speakTool(EmptyMessage, sessionId, name)
       \/ \E message \in Texts : speakTool(message, EmptyString, name)
  \/ cancel_message(EmptyId)

\* C20: a tool call with an empty or absent session id, message or message
\* id returns a failure with an error text and changes neither the queue
\* nor the registry nor the sessions file nor the cursor.
C20_ValidationErrorsChangeNothing ==
  [][InvalidCall =>
       /\ ~ret'.success
       /\ "error" \in DOMAIN ret'
       /\ UNCHANGED <<queue, isProcessing, currentProcess, procs, spoken,
                      nextId, maxLength, sessions, store, voiceIndex>>]_vars

\* a speak call without a message was rejected while the queue held an
\* entry and the registry a session
C20_Witness ==
  /\ ret = errorResponse("speak", "Message must be a non-empty string")
  /\ queue # <<>>
  /\ DOMAIN sessions # {}

\* ------------------------------------------------------------- status

\* C21: when the holder of a status adds an element to the list of the
\* status or removes one, the queue stays as it is, so the next status
\* reports the same entries in the same order and the same length.
C21_SnapshotIsACopy ==
  [][(snapshotPop \/ snapshotPush) =>
       /\ queue' = queue
       /\ getStatus'.queue = getStatus.queue
       /\ getStatus'.queueLength = getStatus.queueLength]_vars

\* the list of the last status was emptied by its holder while the queue
\* holds two entries
C21_Witness ==
  /\ ret.op = "status"
  /\ ret.val.queueLength = 2
  /\ ret.val.queue = <<>>
  /\ Len(queue) = 2

\* the position of the entry with this id in a list that holds it
PositionOf(q, id) == CHOOSE i \in 1..Len(q) : q[i].id = id

\* C22: the list of a status is the list of the entries enqueued and not
\* yet completed, cancelled or reset, in enqueue order, and queueLength is
\* its length.  Step by step: an entry enters the list only at its tail,
\* with a new id; the entries that stay keep their order; an entry leaves
\* the list only by a cancel with its id, by a reset, or by the outcome of
\* the say process started for it.  Violated by the last part: the outcome
\* of one entry's process removes another entry.
C22_StatusListsTheLiveEntries ==
  [][LET before == getStatus.queue
         after == getStatus'.queue
     IN  /\ getStatus'.queueLength = Len(after)
         /\ \A i \in 1..Len(after) :
              after[i].id \notin Ids(before) =>
                /\ i = Len(after)
                /\ after[i].id = nextId
         /\ \A i, j \in 1..Len(after) :
              (i < j /\ after[i].id \in Ids(before) /\ after[j].id \in Ids(before)) =>
                PositionOf(before, after[i].id) < PositionOf(before, after[j].id)
         /\ \A id \in Ids(before) \ Ids(after) :
              \/ cancel(id)
              \/ reset
              \/ \E p \in 1..Len(procs) :
                   procs[p].msg.id = id /\ notification(p)]_vars

\* ---------------------------------------------------------------- C23

C24_NoEmptyText ==
  \A i \in 1..Len(queue) : queue[i].message # <<>>

\* ---------------------------------------------------------------- C25

\* C25: when the outcome of the awaited process leaves the queue empty, the
\* drain loop exits in that step: isProcessing is false and no process is
\* awaited.  An enqueue on a queue whose loop has exited starts a loop that
\* hands the new entry to the executor before enqueue returns.
C25_DrainLoopLifecycle ==
  [][/\ \A p \in Outstanding :
          (notification(p) /\ queue' = <<>>)
            => (~isProcessing' /\ Outstanding' = {})
     /\ \A message \in Texts :
          (enqueue(message) /\ ~isProcessing)
            => /\ isProcessing'
               /\ Len(procs') = Len(procs) + 1
               /\ procs'[Len(procs')].msg = ret'.val
               /\ procs'[Len(procs')].outcome = "pending"
               /\ currentProcess' = Len(procs')
               /\ spoken' = Append(spoken, ret'.val)]_vars

\* a loop has exited on an empty queue and the next enqueue has started the
\* second one
C25_Witness ==
  /\ ret.op = "enqueue"
  /\ ret.val.id = 2
  /\ Len(procs) = 2
  /\ procs[1].outcome # "pending"
  /\ procs[2].outcome = "pending"
  /\ procs[2].msg.id = 2
  /\ isProcessing

\* ---------------------------------------------------------------- C26

\* C26: between operations, a queue that holds an entry has isProcessing
\* true and a process whose outcome its drain loop awaits.
C26_NoStrandedEntries ==
  queue # <<>> => (isProcessing /\ Outstanding # {})

\* the second of two entries is being spoken after the first completed
C26_Witness ==
  /\ Len(queue) = 1
  /\ queue[1].id = 2
  /\ isProcessing
  /\ Len(procs) = 2
  /\ procs[1].outcome = "resolved"
  /\ InFlight(2)

\* ---------------------------------------------------------------- C27

C28_AtMostOnceDispatch ==
  /\ Len(spoken) = Len(procs)
  /\ \A i, j \in 1..Len(spoken) : i # j => spoken[i].id # spoken[j].id
  /\ \A p, q \in 1..Len(procs) : p # q => procs[p].msg.id # procs[q].msg.id

\* the first entry failed, the second was cancelled while waiting and the
\* third is being spoken: two hand-overs for three entries
C28_Witness ==
  /\ Len(spoken) = 2
  /\ spoken[1].id = 1
  /\ spoken[2].id = 3
  /\ procs[1].outcome = "rejected"
  /\ InFlight(3)

\* ---------------------------------------------------------------- C29

\* C29: getOrCreateSession for an id the registry knows returns the stored
\* session and leaves the registry as it was.  A speak call, which reaches
\* the registry through getOrCreateSession alone, therefore leaves the map
\* (the enabled flags with it), the sessions file and the cursor unchanged
\* when the id is known, whether the call is accepted or refused.
C29_GetOrCreateKnownChangesNothing ==
  [][\A sessionId \in DOMAIN sessions : \A name \in RANDOM_NAMES :
       /\ getOrCreateSession(REG, sessionId, name) = REG
       /\ get(getOrCreateSession(REG, sessionId, name), sessionId)
            = sessions[sessionId]
       /\ \A message \in Texts :
            speakTool(message, sessionId, name)
              => (sessions' = sessions /\ store' = store
                  /\ voiceIndex' = voiceIndex)]_vars

\* a speak call was accepted, so its session was known and enabled, while
\* the sessions file no longer held what the map holds
C29_Witness ==
  /\ ret.op = "speak"
  /\ ret.success
  /\ store = corruptFile
  /\ Len(spoken) = 2
  /\ Cardinality(DOMAIN sessions) = 2

\* ---------------------------------------------------------------- C30

Agrees(file, map) ==
  /\ content(file).kind = "json"
  /\ content(file).sessionsArray = { map[id] : id \in DOMAIN map }

\* C31 as stated: after every call that creates or updates a session, the
\* sessions file holds exactly the sessions held in memory.
C31_StoreAgreesWithMemory ==
  [][\A sessionId \in SessionIds : Stores(sessionId) => Agrees(store', sessions')]_vars

\* C31 as the code has it: after a call that creates or updates a session
\* while the file can be written, the file holds exactly the sessions held
\* in memory, whatever it held before; while it cannot be written, the file
\* is left as it was.
C31_StoreAgreesAfterSuccessfulWrite ==
  [][\A sessionId \in SessionIds :
       Stores(sessionId) =>
         IF store.kind # "readonly"
           THEN Agrees(store', sessions') /\ store'.kind = "json"
           ELSE store' = store]_vars

\* two sessions, written one call after the other, the second call an
\* enable: the file holds both as memory does
C31_Witness ==
  /\ ret.op = "enable"
  /\ ret.success
  /\ store.kind = "json"
  /\ Cardinality(store.sessionsArray) = 2
  /\ Agrees(store, sessions)
  /\ \E id \in DOMAIN sessions : ~sessions[id].enabled

\* ---------------------------------------------------------------- C32

\* C32: a call that creates or updates a session while the file cannot be
\* written gets the response it gets on a writable file, not that of the
\* catch block; memory holds the session, with the flag the call gave it, and
\* getOrCreateSession returns it from then on; the file is left as it was.
C32_FailOpenWrite ==
  [][\A sessionId \in SessionIds : \A name \in RANDOM_NAMES :
       (store.kind = "readonly" /\ Stores(sessionId))
         => /\ store' = store
            /\ has(REG', sessionId)
            /\ get(REG', sessionId).id = sessionId
            /\ getOrCreateSession(REG', sessionId, name) = REG'
            /\ ret'.op = "enable" => (ret'.success /\ sessions'[sessionId].enabled)
            /\ ret'.op = "disable" => (ret'.success /\ ~sessions'[sessionId].enabled)
            /\ ret'.op = "speak" =>
                 /\ ~ret'.success
                 /\ ret'.error = "Speech is not enabled for this session"
                 /\ ~sessions'[sessionId].enabled]_vars

\* s1 was created and enabled while the file could not be written, and no
\* file exists: memory holds it, enabled, and its introduction was queued
C32_Witness ==
  /\ store = readOnlyFile(noFile)
  /\ ret.op = "enable"
  /\ ret.success
  /\ "s1" \in DOMAIN sessions
  /\ sessions["s1"].enabled
  /\ Len(spoken) = 1

\* ---------------------------------------------------------------- C33

\* C33: the cursor equals the number of sessions the registry knows, after
\* any calls and after a start on a file that holds sessions.
C33_CursorEqualsSessionCount ==
  voiceIndex = Cardinality(DOMAIN sessions)

\* ---------------------------------------------------------------- C34

\* C34: a disable call leaves the queue, its flag, its current process and
\* the say processes as they are, so the entries the session enqueued keep
\* their places; and the drain loop, which reads no session, hands the next
\* waiting entry to the executor when the awaited process ends, whether the
\* session that enqueued it is enabled or not.
C34_DisableLeavesTheQueue ==
  [][/\ \A sessionId \in ServerIds \cup {EmptyString} : \A name \in RANDOM_NAMES :
          disable(sessionId, name)
            => UNCHANGED <<queue, isProcessing, currentProcess, procs, spoken>>
     /\ \A p \in Outstanding : \A code \in ExitCodes :
          (onClose(p, code) /\ Len(queue) >= 2)
            => /\ Len(procs') = Len(procs) + 1
               /\ procs'[Len(procs')].msg = queue[2]
               /\ procs'[Len(procs')].outcome = "pending"
               /\ queue' = SubSeq(queue, 2, Len(queue))]_vars

\* s1 enabled itself and queued a text behind its introduction, then was
\* disabled: both entries are in the queue, the text still waiting
C34_Witness ==
  /\ ret.op = "disable"
  /\ ret.success
  /\ DOMAIN sessions = {"s1"}
  /\ ~sessions["s1"].enabled
  /\ Len(queue) = 2
  /\ queue[2].voice = sessions["s1"].voice
  /\ queue[2].message = <<"h", "i">>
  /\ queue[2].id \notin Ids(spoken)

\* ---------------------------------------------------------------- C35

C36_ProcessingIffOutstanding ==
  /\ [](getStatus.isProcessing <=> Outstanding # {})
  /\ [][(reset /\ Outstanding # {})
          => (getStatus'.isProcessing /\ Outstanding' = Outstanding)]_vars

\* reset was called while an entry was spoken; its process, killed, has
\* not reported: the flag is true on an empty queue
C36_Witness ==
  /\ ret.op = "reset"
  /\ queue = <<>>
  /\ isProcessing
  /\ Outstanding = {1}
  /\ procs[1].killed
  /\ procs[1].state = "running"

\* ---------------------------------------------------------------- C37

\* C37: while the outcome of a say process is awaited and reset has not
\* killed it, the handle the queue holds is that process, so a reset would
\* kill it; no event of an earlier process clears or replaces the handle.
C37_HandleIsOfTheEntrySpoken ==
  \A p \in Outstanding : procs[p].killed \/ currentProcess = p

\* ---------------------------------------------------------------- C38

\* C38: the promise of speak() is resolved when the awaited process, not
\* killed, exits, whatever its exit code, and rejected when it reports
\* 'error'; either way the drain loop removes the head entry in that step.
C38_ResolvesOnAnyExitCode ==
  [][\A p \in Outstanding :
       /\ \A code \in ExitCodes :
            (onClose(p, code) /\ ~procs[p].killed)
              => /\ procs'[p].outcome = "resolved"
                 /\ queue # <<>> => queue' = Tail(queue)
       /\ onError(p)
            => /\ procs'[p].outcome = "rejected"
               /\ queue # <<>> => queue' = Tail(queue)]_vars

====
